---- MODULE Spec2Model ----
(***************************************************************************)
(* Weather data pipeline: parse_weather_data / ingest_data                 *)
(* (src/src/ingest_data.py), calculate_statistics                          *)
(* (src/src/weather_statistics.py) and the two tables of src/src/models.py.*)
(*                                                                         *)
(* Physical values (raw / 10.0) are kept as exact fractions <<num, den>>   *)
(* in lowest terms with den > 0; NULL (Python None, SQL NULL) and NaT are   *)
(* the empty tuple.  The store is PostgreSQL reached through psycopg2, the  *)
(* driver models.py imports and the "postgresql://" URL selects.            *)
(***************************************************************************)
EXTENDS Integers, Sequences, FiniteSets, Bags, TLC

\* ---------------------------------------------------------------- bounds
\* most lines a source file holds
MaxRows == 2
\* most calculate_statistics runs in one behaviour (every run adds rows)
MaxStatRuns == 2

\* ------------------------------------------------------------ basic values
NULL == <<>>
NaT == <<>>

Abs(n) == IF n < 0 THEN 0 - n ELSE n

RECURSIVE GCD(_, _)
GCD(a, b) == IF b = 0 THEN a ELSE GCD(b, a % b)

\* the fraction n / d (d > 0) in lowest terms
Frac(n, d) ==
    LET g == GCD(Abs(n), d)
    IN  IF n = 0 THEN <<0, 1>> ELSE <<n \div g, d \div g>>

notnull(v) == v # NULL

\* --------------------------------------------------------- the source files
\* the -9999 of data.replace(-9999, None)
Sentinel == -9999

\* raw measurement fields, in tenths of the unit
RawValues == {Sentinel, -22, 0, 211}

Line(d, a, b, c) == [date |-> d, max_temp |-> a, min_temp |-> b, precipitation |-> c]

SeqsUpTo(S, n) == UNION {[1..k -> S] : k \in 0..n}

\* ------------------------------------------------------ parse_weather_data
IsLeap(y) == (y % 4 = 0 /\ y % 100 # 0) \/ y % 400 = 0

DaysIn(y, m) ==
    IF m = 2 THEN (IF IsLeap(y) THEN 29 ELSE 28)
    ELSE IF m \in {4, 6, 9, 11} THEN 30 ELSE 31

\* pd.to_datetime(x, format='%Y%m%d', errors='coerce') of one cell
to_datetime(cell) ==
    IF cell = NULL THEN NaT
    ELSE LET x == cell[1]
             y == x \div 10000
             m == (x \div 100) % 100
             d == x % 100
         IN  IF x >= 10000101 /\ x <= 99991231 /\ m \in 1..12 /\ d >= 1 /\ d <= DaysIn(y, m)
             THEN <<y, m, d>>
             ELSE NaT

\* (variant: value=None read as "no value given", so that the sentinel is
\* filled with the last cell above it that is no sentinel, as pandas < 1.4 did)
replace_pad(col, k) ==
    LET above == {j \in 1..k : col[j] # Sentinel}
    IN  IF above = {} THEN NULL
        ELSE <<col[CHOOSE j \in above : \A l \in above : l <= j]>>

\* data.replace(-9999, None) of cell k of a column; a cell is <<v>>, or NULL.
\* An explicit value=None replaces by None (pandas >= 1.4).
replace(col, k) == IF col[k] = Sentinel THEN NULL ELSE <<col[k]>>

\* np.where(pd.notnull(x), x / 10.0, None) of one cell
scale(cell) == IF notnull(cell) THEN Frac(cell[1], 10) ELSE NULL

\* os.path.basename(file_path).split('.')[0]
station_of(file_name) ==
    CASE file_name = "S1.txt" -> "S1"
      [] file_name = "S1.b.txt" -> "S1"
      [] file_name = "S2.txt" -> "S2"

Column(rows, field) == [k \in 1..Len(rows) |-> rows[k][field]]

\* the DataFrame parse_weather_data returns for a readable file
parse_weather_data(file_name, rows) ==
    [k \in 1..Len(rows) |->
        [station_id    |-> station_of(file_name),
         date          |-> to_datetime(replace(Column(rows, "date"), k)),
         max_temp      |-> scale(replace(Column(rows, "max_temp"), k)),
         min_temp      |-> scale(replace(Column(rows, "min_temp"), k)),
         precipitation |-> scale(replace(Column(rows, "precipitation"), k))]]

\* -------------------------------------------------------------- the state
VARIABLES
    wx_data,                \* the directory DATA_PATH: file name -> [readable, rows]
    listing,                \* the order in which the directory lists its files
    weather_data,           \* committed rows of table weather_data
    pc,                     \* where ingest_data is: "idle", "file" (for file_path in files), "row" (for row in data)
    status,                 \* how the last ingest_data call ended: "none", "running", "completed", "raised"
    error,                  \* the exception that left ingest_data, "" when none
    files,                  \* glob.glob(...): the file names of this run, in the order glob gave
    fidx,                   \* position of the outer loop in files
    data,                   \* the DataFrame of the current file
    i,                      \* position of the inner loop in data
    record_count,
    duplicate_count,
    total_record_count,
    total_duplicate_count,
    log,                    \* per file of this run: the counts when the file was finished
    prev,                   \* the previous ingest_data call: how it ended, its per-file counts, the store around it
    start_rows,             \* weather_data when this ingest_data call started
    weather_statistics,     \* committed rows of table weather_statistics, a bag (the id column left out)
    stat_pc,                \* where calculate_statistics is: "idle", "loop" (for result in query), "flushed"
    stat_status,            \* how the last calculate_statistics call went: "none", "running", "completed", or what failed
    results,                \* the rows of the query not yet iterated
    session_new,            \* WeatherStatistics objects added to the session, not yet flushed
    flushed,                \* rows INSERTed by the session's open transaction, not yet committed
    stat_runs,              \* calculate_statistics calls so far
    stat_before,            \* weather_statistics and weather_data when this call started
    workers                 \* two ingest_data calls that run at the same time: worker -> its locals, its session's
                            \* open transaction (txn) and the keys it has counted so far (ingested, duplicates)

ingest_vars == <<wx_data, listing, weather_data, pc, status, error, files, fidx, data, i, record_count,
                 duplicate_count, total_record_count, total_duplicate_count, log, prev, start_rows>>

stat_vars == <<weather_statistics, stat_pc, stat_status, results, session_new, flushed,
               stat_runs, stat_before>>

vars == <<ingest_vars, stat_vars, workers>>

\* ------------------------------------------------------- table weather_data
Key(r) == <<r.station_id, r.date>>

Keys(table) == {Key(r) : r \in table}

\* UniqueConstraint('station_id', 'date', name='station_date_uc'): would the
\* INSERT of record break it
\* (variant: the constraint declared over every column)
station_date_uc_all_columns(table, record) == record \in table

station_date_uc(table, record) == \E r \in table : r.station_id = record.station_id /\ r.date = record.date

\* session.add(record); session.commit() of one WeatherData: the exception
\* the commit raises ("" when it commits).  psycopg2 sends NaT as the text
\* 'NaT', which PostgreSQL refuses as a timestamp (DataError); a lost
\* connection (OperationalError) can hit any commit.
commit_error(table, record, connected) ==
    IF ~connected THEN "OperationalError"
    ELSE IF record.date = NaT THEN "DataError"
    ELSE IF station_date_uc(table, record) THEN "IntegrityError"
    ELSE ""

\* (variant: the conflict is counted with the inserted records)
try_insert_counts_record(table, record, rc, dc, connected) ==
    LET e == commit_error(table, record, connected)
    IN  CASE e \in {"", "IntegrityError"} ->
               [table |-> table \cup {record}, record_count |-> rc + 1,
                duplicate_count |-> dc, raised |-> ""]
          [] OTHER ->
               [table |-> table, record_count |-> rc,
                duplicate_count |-> dc, raised |-> e]

\* (variant: no except clause, the conflict leaves the loop)
try_insert_no_except(table, record, rc, dc, connected) ==
    LET e == commit_error(table, record, connected)
    IN  CASE e = "" ->
               [table |-> table \cup {record}, record_count |-> rc + 1,
                duplicate_count |-> dc, raised |-> ""]
          [] OTHER ->
               [table |-> table, record_count |-> rc,
                duplicate_count |-> dc, raised |-> e]

\* (variant: "except Exception", every failure is taken for a duplicate)
try_insert_except_all(table, record, rc, dc, connected) ==
    LET e == commit_error(table, record, connected)
    IN  CASE e = "" ->
               [table |-> table \cup {record}, record_count |-> rc + 1,
                duplicate_count |-> dc, raised |-> ""]
          [] OTHER ->
               [table |-> table, record_count |-> rc,
                duplicate_count |-> dc + 1, raised |-> ""]

\* (variant: session.merge in place of the except clause, the stored row of
\* the key is replaced by the record)
try_insert_upsert(table, record, rc, dc, connected) ==
    LET e == commit_error(table, record, connected)
    IN  CASE e = "" ->
               [table |-> table \cup {record}, record_count |-> rc + 1,
                duplicate_count |-> dc, raised |-> ""]
          [] e = "IntegrityError" ->
               [table |-> {r \in table : r.station_id # record.station_id \/ r.date # record.date}
                              \cup {record},
                record_count |-> rc, duplicate_count |-> dc + 1, raised |-> ""]
          [] OTHER ->
               [table |-> table, record_count |-> rc,
                duplicate_count |-> dc, raised |-> e]

\* One pass of the body of "for _, row in data.iterrows()": the try/except
\* around session.add / session.commit.  raised is the exception that leaves
\* the loop ("" when the loop goes on).
try_insert(table, record, rc, dc, connected) ==
    LET e == commit_error(table, record, connected)
    IN  CASE e = "" ->
               [table |-> table \cup {record}, record_count |-> rc + 1,
                duplicate_count |-> dc, raised |-> ""]
          [] e = "IntegrityError" ->
               [table |-> table, record_count |-> rc,
                duplicate_count |-> dc + 1, raised |-> ""]
          [] OTHER ->
               [table |-> table, record_count |-> rc,
                duplicate_count |-> dc, raised |-> e]

\* ------------------------------------------------------------- ingest_data
FileNames == {"S1.txt", "S1.b.txt"}

\* the lines the files of DATA_PATH are made of: the same day with two
\* different readings, a second day, and a line whose date is no date
IngestLines ==
    {Line(20030101, 211, Sentinel, 0), Line(20030101, -22, 0, Sentinel),
     Line(20030102, 211, Sentinel, 0), Line(20030230, 211, -22, 0)}

Unreadable == [readable |-> FALSE, rows |-> <<>>]

FileContents == {[readable |-> TRUE, rows |-> rs] : rs \in SeqsUpTo(IngestLines, MaxRows)} \cup {Unreadable}

Directories == UNION {[S -> FileContents] : S \in SUBSET FileNames}

Orderings(S) == {o \in [1..Cardinality(S) -> S] : \A a, b \in 1..Cardinality(S) : a # b => o[a] # o[b]}

NoRun == [status |-> "none", log |-> <<>>, start_rows |-> {}]

StatIdle ==
    /\ weather_statistics = EmptyBag
    /\ stat_pc = "idle"
    /\ stat_status = "none"
    /\ results = {}
    /\ session_new = EmptyBag
    /\ flushed = EmptyBag
    /\ stat_runs = 0
    /\ stat_before = [weather_statistics |-> EmptyBag, weather_data |-> {}]

IngestIdle ==
    /\ pc = "idle"
    /\ status = "none"
    /\ error = ""
    /\ files = <<>>
    /\ fidx = 1
    /\ data = <<>>
    /\ i = 1
    /\ record_count = 0
    /\ duplicate_count = 0
    /\ total_record_count = 0
    /\ total_duplicate_count = 0
    /\ log = <<>>
    /\ prev = NoRun
    /\ start_rows = {}

\* the two ingest_data calls that run at the same time
Workers == {"w1", "w2"}

\* the locals of one ingest_data call before it starts; txn is what its
\* session has sent to the server and not yet committed
WorkerIdle ==
    [pc |-> "idle", status |-> "none", error |-> "", fidx |-> 1, data |-> <<>>, i |-> 1,
     record_count |-> 0, duplicate_count |-> 0, total_record_count |-> 0,
     total_duplicate_count |-> 0, log |-> <<>>, txn |-> {}, ingested |-> {}, duplicates |-> {}]

WorkersIdle == workers = [w \in Workers |-> WorkerIdle]

Init ==
    /\ wx_data \in Directories
    /\ listing \in Orderings(DOMAIN wx_data)
    /\ weather_data = {}
    /\ IngestIdle
    /\ StatIdle
    /\ WorkersIdle

\* ingest_data is called: get_session, glob, the counters set to 0
StartIngest ==
    /\ pc = "idle"
    /\ files' = listing
    /\ prev' = [status |-> status, log |-> log, start_rows |-> start_rows]
    /\ start_rows' = weather_data
    /\ pc' = "file"
    /\ status' = "running"
    /\ error' = ""
    /\ fidx' = 1
    /\ data' = <<>>
    /\ i' = 1
    /\ record_count' = 0
    /\ duplicate_count' = 0
    /\ total_record_count' = 0
    /\ total_duplicate_count' = 0
    /\ log' = <<>>
    /\ UNCHANGED <<wx_data, listing, weather_data>>
    /\ UNCHANGED <<stat_vars, workers>>

\* the exception `e` leaves ingest_data: nothing catches it
Raise(e) ==
    /\ pc' = "idle"
    /\ status' = "raised"
    /\ error' = e

\* head of "for file_path in files" with a file left: parse_weather_data
\* and the per-file counters
BeginFile ==
    /\ pc = "file"
    /\ fidx <= Len(files)
    /\ LET file == wx_data[files[fidx]]
       IN  IF file.readable
           THEN /\ data' = parse_weather_data(files[fidx], file.rows)
                /\ i' = 1
                /\ record_count' = 0
                /\ duplicate_count' = 0
                /\ pc' = "row"
                /\ UNCHANGED <<status, error>>
           ELSE /\ Raise("OSError")
                /\ UNCHANGED <<data, i, record_count, duplicate_count>>
    /\ UNCHANGED <<wx_data, listing, weather_data, files, fidx, total_record_count,
                   total_duplicate_count, log, prev, start_rows>>
    /\ UNCHANGED <<stat_vars, workers>>

\* one pass of "for _, row in data.iterrows()"
InsertRow ==
    /\ pc = "row"
    /\ i <= Len(data)
    /\ \E connected \in BOOLEAN :
         LET r == try_insert(weather_data, data[i], record_count, duplicate_count, connected)
         IN  /\ weather_data' = r.table
             /\ record_count' = r.record_count
             /\ duplicate_count' = r.duplicate_count
             /\ IF r.raised = ""
                THEN /\ i' = i + 1
                     /\ UNCHANGED <<pc, status, error>>
                ELSE /\ Raise(r.raised)
                     /\ UNCHANGED i
    /\ UNCHANGED <<wx_data, listing, files, fidx, data, total_record_count,
                   total_duplicate_count, log, prev, start_rows>>
    /\ UNCHANGED <<stat_vars, workers>>

\* (variant: the totals are set to the counts of the file, not added to)
EndFile_totals_overwritten ==
    /\ pc = "row"
    /\ i > Len(data)
    /\ log' = Append(log, [file |-> files[fidx], rows |-> Len(data),
                            record_count |-> record_count, duplicate_count |-> duplicate_count])
    /\ total_record_count' = record_count
    /\ total_duplicate_count' = duplicate_count
    /\ fidx' = fidx + 1
    /\ pc' = "file"
    /\ UNCHANGED <<wx_data, listing, weather_data, status, error, files, data, i, record_count,
                   duplicate_count, prev, start_rows>>
    /\ UNCHANGED <<stat_vars, workers>>

\* the rows of the file are exhausted: the per-file log lines and the totals
EndFile ==
    /\ pc = "row"
    /\ i > Len(data)
    /\ log' = Append(log, [file |-> files[fidx], rows |-> Len(data),
                            record_count |-> record_count, duplicate_count |-> duplicate_count])
    /\ total_record_count' = total_record_count + record_count
    /\ total_duplicate_count' = total_duplicate_count + duplicate_count
    /\ fidx' = fidx + 1
    /\ pc' = "file"
    /\ UNCHANGED <<wx_data, listing, weather_data, status, error, files, data, i, record_count,
                   duplicate_count, prev, start_rows>>
    /\ UNCHANGED <<stat_vars, workers>>

\* the files are exhausted: the closing log lines, ingest_data returns
EndIngest ==
    /\ pc = "file"
    /\ fidx > Len(files)
    /\ pc' = "idle"
    /\ status' = "completed"
    /\ UNCHANGED <<wx_data, listing, weather_data, error, files, fidx, data, i, record_count,
                   duplicate_count, total_record_count, total_duplicate_count, log, prev,
                   start_rows>>
    /\ UNCHANGED <<stat_vars, workers>>

\* ---------------------------------------------------- calculate_statistics
\* a + b for fractions a, b
FracAdd(a, b) == Frac(a[1] * b[2] + b[1] * a[2], a[2] * b[2])

\* SQL sum() and count() over the non-NULL values of `field` in `rows`
RECURSIVE sum_count(_, _)
sum_count(rows, field) ==
    IF rows = {} THEN [sum |-> <<0, 1>>, count |-> 0]
    ELSE LET r == CHOOSE x \in rows : TRUE
             rest == sum_count(rows \ {r}, field)
         IN  IF r[field] = NULL THEN rest
             ELSE [sum |-> FracAdd(rest.sum, r[field]), count |-> rest.count + 1]

\* func.sum(column): NULL when the group holds no non-NULL value
func_sum(rows, field) ==
    LET sc == sum_count(rows, field)
    IN  IF sc.count = 0 THEN NULL ELSE sc.sum

\* (variant: a NULL counts as a 0 reading)
func_avg_null_as_zero(rows, field) ==
    LET sc == sum_count(rows, field)
    IN  IF rows = {} THEN NULL ELSE Frac(sc.sum[1], sc.sum[2] * Cardinality(rows))

\* func.avg(column): NULL when the group holds no non-NULL value
func_avg(rows, field) ==
    LET sc == sum_count(rows, field)
    IN  IF sc.count = 0 THEN NULL ELSE Frac(sc.sum[1], sc.sum[2] * sc.count)

\* extract('year', WeatherData.date)
extract_year(date) == date[1]

\* the grouped query: one row per (station_id, year) that has a row
query(table) ==
    {[year                |-> g[2],
      station_id          |-> g[1],
      avg_max_temp        |-> func_avg({r \in table : r.station_id = g[1] /\ extract_year(r.date) = g[2]}, "max_temp"),
      avg_min_temp        |-> func_avg({r \in table : r.station_id = g[1] /\ extract_year(r.date) = g[2]}, "min_temp"),
      total_precipitation |-> func_sum({r \in table : r.station_id = g[1] /\ extract_year(r.date) = g[2]}, "precipitation")]
     : g \in {<<r.station_id, extract_year(r.date)>> : r \in table}}

\* (variant: every INSERT is committed as it is made, nothing to roll back)
rollback_keeps_inserted(committed, inserted) == committed (+) inserted

\* session.rollback() (and the rollback a failed commit does by itself): the
\* committed table the open transaction leaves behind
rollback(committed, inserted) == committed

\* session.commit() once the flush is through
commit(committed, inserted) == committed (+) inserted

\* "except Exception": rollback, log, return
StatFailed(what) ==
    /\ weather_statistics' = rollback(weather_statistics, flushed)
    /\ flushed' = EmptyBag
    /\ session_new' = EmptyBag
    /\ results' = {}
    /\ stat_pc' = "idle"
    /\ stat_status' = what

\* calculate_statistics is called and the query is run (or raises)
StatBegin ==
    /\ stat_pc = "idle"
    /\ stat_runs < MaxStatRuns
    /\ stat_runs' = stat_runs + 1
    /\ stat_before' = [weather_statistics |-> weather_statistics, weather_data |-> weather_data]
    /\ \/ /\ results' = query(weather_data)
          /\ stat_pc' = "loop"
          /\ stat_status' = "running"
          /\ UNCHANGED <<weather_statistics, session_new, flushed>>
       \/ StatFailed("query failed")
    /\ UNCHANGED <<ingest_vars, workers>>

\* one pass of "for result in query": session.add(yearly_stat)
StatAdd ==
    /\ stat_pc = "loop"
    /\ \E result \in results :
         /\ session_new' = session_new (+) SetToBag({result})
         /\ results' = results \ {result}
    /\ UNCHANGED <<weather_statistics, stat_pc, stat_status, flushed, stat_runs, stat_before>>
    /\ UNCHANGED <<ingest_vars, workers>>

\* an exception inside the loop
StatLoopFail ==
    /\ stat_pc = "loop"
    /\ StatFailed("loop failed")
    /\ UNCHANGED <<stat_runs, stat_before>>
    /\ UNCHANGED <<ingest_vars, workers>>

\* session.commit(), first half: the pending objects are INSERTed
StatFlush ==
    /\ stat_pc = "loop"
    /\ results = {}
    /\ flushed' = session_new
    /\ session_new' = EmptyBag
    /\ stat_pc' = "flushed"
    /\ UNCHANGED <<weather_statistics, stat_status, results, stat_runs, stat_before>>
    /\ UNCHANGED <<ingest_vars, workers>>

\* session.commit(), second half: COMMIT goes through, or the commit raises
StatCommit ==
    /\ stat_pc = "flushed"
    /\ \/ /\ weather_statistics' = commit(weather_statistics, flushed)
          /\ flushed' = EmptyBag
          /\ stat_pc' = "idle"
          /\ stat_status' = "completed"
          /\ UNCHANGED <<results, session_new>>
       \/ StatFailed("commit failed")
    /\ UNCHANGED <<stat_runs, stat_before>>
    /\ UNCHANGED <<ingest_vars, workers>>

StatNext == StatBegin \/ StatAdd \/ StatLoopFail \/ StatFlush \/ StatCommit

\* ------------------------------------------------------- the specifications
\* ingest_data, run any number of times over a directory
Next == StartIngest \/ BeginFile \/ InsertRow \/ EndFile \/ EndIngest

Spec == Init /\ [][Next]_vars

\* parse_weather_data alone, over one file of any lines
ParseNames == {"S1.b.txt"}

ParseLines == {Line(20030101, a, b, c) : a \in RawValues, b \in RawValues, c \in RawValues}

InitParse ==
    /\ \E name \in ParseNames, rows \in SeqsUpTo(ParseLines, MaxRows) :
         /\ wx_data = [n \in {name} |-> [readable |-> TRUE, rows |-> rows]]
         /\ listing = <<name>>
    /\ weather_data = {}
    /\ IngestIdle
    /\ StatIdle
    /\ WorkersIdle

\* data = parse_weather_data(file_path), outside ingest_data
ParseFile ==
    /\ pc = "idle"
    /\ data' = parse_weather_data(listing[1], wx_data[listing[1]].rows)
    /\ pc' = "parsed"
    /\ UNCHANGED <<wx_data, listing, weather_data, status, error, files, fidx, i, record_count,
                   duplicate_count, total_record_count, total_duplicate_count, log, prev,
                   start_rows>>
    /\ UNCHANGED <<stat_vars, workers>>

NextParse == ParseFile

SpecParse == InitParse /\ [][NextParse]_vars

\* calculate_statistics, run over a loaded store
StatFiles == {"S1.txt", "S2.txt"}

\* the (file, date) pairs the stored rows come from: three days of 2003 and
\* one of 2004 for one station, one day of 2003 for another
StatKeys ==
    {<<"S1.txt", 20030101>>, <<"S1.txt", 20030102>>, <<"S1.txt", 20030103>>,
     <<"S1.txt", 20040101>>, <<"S2.txt", 20030101>>}

\* the readings of a stored row, as raw fields
StatReadings == {<<211, Sentinel, Sentinel>>, <<Sentinel, -22, 0>>, <<-22, 0, 211>>}

\* the row ingest_data stores for one line of a file
StoredRow(name, line) == parse_weather_data(name, <<line>>)[1]

\* the stores ingest_data can leave: at most one row per key
StatStores ==
    {{StoredRow(k[1], Line(k[2], f[k][1], f[k][2], f[k][3])) : k \in {x \in StatKeys : f[x] # <<>>}}
        : f \in [StatKeys -> StatReadings \cup {<<>>}]}

InitStats ==
    /\ wx_data = <<>>
    /\ listing = <<>>
    /\ weather_data \in StatStores
    /\ IngestIdle
    /\ StatIdle
    /\ WorkersIdle

SpecStats == InitStats /\ [][StatNext]_vars

\* ingest_data and calculate_statistics as two programs over one database,
\* their steps in any order: one file, whose lines give one day two
\* different readings and a day of another year one
PipelineLines ==
    {Line(20030101, 211, Sentinel, 0), Line(20030101, -22, 0, Sentinel),
     Line(20040101, -22, 0, 211)}

InitPipeline ==
    /\ \E rows \in SeqsUpTo(PipelineLines, MaxRows) :
         wx_data = [n \in {"S1.txt"} |-> [readable |-> TRUE, rows |-> rows]]
    /\ listing = <<"S1.txt">>
    /\ weather_data = {}
    /\ IngestIdle
    /\ StatIdle
    /\ WorkersIdle

NextPipeline ==
    \/ StartIngest \/ BeginFile \/ InsertRow \/ EndFile \/ EndIngest
    \/ StatBegin \/ StatAdd \/ StatLoopFail \/ StatFlush \/ StatCommit

SpecPipeline == InitPipeline /\ [][NextPipeline]_vars

\* ------------------------------------------- two ingest_data calls at once
\* Two processes run ingest_data over the same DATA_PATH and the same
\* database, each with the session its own get_session() made.  A commit is
\* two steps here, as it is on the wire: the INSERT the flush sends, then
\* COMMIT; the steps of the two workers come in any order.
run_vars == <<pc, status, error, files, fidx, data, i, record_count, duplicate_count,
              total_record_count, total_duplicate_count, log, prev, start_rows>>

\* the unique index of station_date_uc under READ COMMITTED: an INSERT whose
\* key another transaction has inserted and not yet committed waits until
\* that transaction ends
waits(ws, w, record) == \E v \in DOMAIN ws \ {w} : Key(record) \in Keys(ws[v].txn)

\* (variant: one module-level session that both workers use)
session_rollback_shared(ws, w) == [v \in DOMAIN ws |-> [ws[v] EXCEPT !.txn = {}]]

\* session.rollback() in worker w: the session of w, and no other, drops
\* what it has not committed
session_rollback(ws, w) == [ws EXCEPT ![w].txn = {}]

\* the exception `e` leaves the ingest_data of a worker; the server ends the
\* transaction its session had open
raised(me, e) == [me EXCEPT !.pc = "idle", !.status = "raised", !.error = e, !.txn = {}]

InitWorkers ==
    /\ wx_data \in {[n \in {"S1.txt"} |-> c] :
                       c \in {[readable |-> TRUE, rows |-> rs] : rs \in SeqsUpTo(PipelineLines, MaxRows)}
                              \cup {Unreadable}}
    /\ listing = <<"S1.txt">>
    /\ weather_data = {}
    /\ IngestIdle
    /\ StatIdle
    /\ WorkersIdle

\* worker w calls ingest_data: get_session, glob, the counters set to 0
WorkerStart(w) ==
    /\ workers[w].pc = "idle"
    /\ workers[w].status = "none"
    /\ workers' = [workers EXCEPT ![w].pc = "file", ![w].status = "running"]
    /\ UNCHANGED <<wx_data, listing, weather_data, run_vars, stat_vars>>

\* head of "for file_path in files" with a file left
WorkerBeginFile(w) ==
    LET me == workers[w]
    IN  /\ me.pc = "file"
        /\ me.fidx <= Len(listing)
        /\ LET file == wx_data[listing[me.fidx]]
           IN  IF file.readable
               THEN workers' = [workers EXCEPT
                                  ![w].data = parse_weather_data(listing[me.fidx], file.rows),
                                  ![w].i = 1, ![w].record_count = 0,
                                  ![w].duplicate_count = 0, ![w].pc = "row"]
               ELSE workers' = [workers EXCEPT ![w] = raised(me, "OSError")]
        /\ UNCHANGED <<wx_data, listing, weather_data, run_vars, stat_vars>>

\* session.add(record) and the first half of session.commit(): the flush
\* sends the INSERT.  A key that is already committed is refused
\* (IntegrityError: rollback, duplicate_count += 1); otherwise the row is in
\* the worker's open transaction.
WorkerAdd(w) ==
    LET me == workers[w]
    IN  /\ me.pc = "row"
        /\ me.i <= Len(me.data)
        /\ ~waits(workers, w, me.data[me.i])
        /\ \E connected \in BOOLEAN :
             LET record == me.data[me.i]
                 e == commit_error(weather_data, record, connected)
             IN  CASE e = "" ->
                        workers' = [workers EXCEPT ![w].txn = {record}, ![w].pc = "commit"]
                   [] e = "IntegrityError" ->
                        workers' = [session_rollback(workers, w) EXCEPT
                                      ![w].duplicate_count = @ + 1,
                                      ![w].duplicates = @ \cup {Key(record)},
                                      ![w].i = @ + 1]
                   [] OTHER ->
                        workers' = [workers EXCEPT ![w] = raised(me, e)]
        /\ UNCHANGED <<wx_data, listing, weather_data, run_vars, stat_vars>>

\* the second half of session.commit(): COMMIT makes the open transaction
\* part of the table, then record_count += 1
WorkerCommit(w) ==
    LET me == workers[w]
    IN  /\ me.pc = "commit"
        /\ \E connected \in BOOLEAN :
             IF connected
             THEN /\ weather_data' = weather_data \cup me.txn
                  /\ workers' = [workers EXCEPT
                                   ![w].txn = {},
                                   ![w].record_count = @ + 1,
                                   ![w].ingested = @ \cup {Key(me.data[me.i])},
                                   ![w].i = @ + 1,
                                   ![w].pc = "row"]
             ELSE /\ workers' = [workers EXCEPT ![w] = raised(me, "OperationalError")]
                  /\ UNCHANGED weather_data
        /\ UNCHANGED <<wx_data, listing, run_vars, stat_vars>>

\* the rows of the file are exhausted: the per-file log lines and the totals
WorkerEndFile(w) ==
    LET me == workers[w]
    IN  /\ me.pc = "row"
        /\ me.i > Len(me.data)
        /\ workers' = [workers EXCEPT
                         ![w].log = Append(@, [file |-> listing[me.fidx], rows |-> Len(me.data),
                                               record_count |-> me.record_count,
                                               duplicate_count |-> me.duplicate_count]),
                         ![w].total_record_count = @ + me.record_count,
                         ![w].total_duplicate_count = @ + me.duplicate_count,
                         ![w].fidx = @ + 1,
                         ![w].pc = "file"]
        /\ UNCHANGED <<wx_data, listing, weather_data, run_vars, stat_vars>>

\* the files are exhausted: ingest_data returns
WorkerEndIngest(w) ==
    LET me == workers[w]
    IN  /\ me.pc = "file"
        /\ me.fidx > Len(listing)
        /\ workers' = [workers EXCEPT ![w].pc = "idle", ![w].status = "completed"]
        /\ UNCHANGED <<wx_data, listing, weather_data, run_vars, stat_vars>>

NextWorkers ==
    \E w \in Workers :
        \/ WorkerStart(w) \/ WorkerBeginFile(w) \/ WorkerAdd(w) \/ WorkerCommit(w)
        \/ WorkerEndFile(w) \/ WorkerEndIngest(w)

SpecWorkers == InitWorkers /\ [][NextWorkers]_vars

\* ------------------------------------------------------------------ parsing
MeasureFields == {"max_temp", "min_temp", "precipitation"}

\* the lines of the one file of the directory
RawRows == wx_data[listing[1]].rows

\* C7: parse_weather_data gives one cleaned row per line, and for each of
\* max_temp, min_temp and precipitation of each row, whatever the other
\* fields and rows hold: the cleaned value is null when the raw value is
\* -9999, and otherwise it is the number raw / 10 (a fraction num / den with
\* den > 0 and num * 10 = raw * den, so that the sign is the raw value's and
\* raw 0 gives 0).
C7_FieldCleaning ==
    pc = "parsed" =>
        /\ Len(data) = Len(RawRows)
        /\ \A k \in 1..Len(data) : \A field \in MeasureFields :
             IF RawRows[k][field] = -9999
             THEN data[k][field] = <<>>
             ELSE /\ Len(data[k][field]) = 2
                  /\ data[k][field][2] > 0
                  /\ data[k][field][1] * 10 = RawRows[k][field] * data[k][field][2]

\* a second line with max_temp missing under a first line with max_temp 211:
\* null, -2.2 and 0 for the second row, 21.1 for the first
C7_Witness ==
    /\ pc = "parsed"
    /\ Len(data) = 2
    /\ RawRows[1].max_temp = 211
    /\ RawRows[2] = Line(20030101, -9999, -22, 0)
    /\ data[1].max_temp = <<211, 10>>
    /\ data[2].max_temp = <<>>
    /\ data[2].min_temp = <<-11, 5>>
    /\ data[2].precipitation = <<0, 1>>

\* ---------------------------------------------------------------- ingestion
\* the DataFrame of file `name` of the directory
Parsed(name) == parse_weather_data(name, wx_data[name].rows)

ParsedKeys(name) == {Key(Parsed(name)[k]) : k \in 1..Len(Parsed(name))}

\* two ingest_data calls in a row have both returned
TwoRunsCompleted == pc = "idle" /\ status = "completed" /\ prev.status = "completed"

\* the store held none of the keys of file k of the listing when the first of
\* the two calls started
FreshBefore(k) == ParsedKeys(log[k].file) \cap Keys(prev.start_rows) = {}

\* C1, as stated: after two completed runs in a row, for every file whose keys
\* the store did not hold before the first run, the rows after the second run
\* are the rows after the first, and the second run's duplicate count for the
\* file is the first run's ingested count for it.
C1_AsStated ==
    TwoRunsCompleted =>
        \A k \in 1..Len(log) :
            FreshBefore(k) =>
                /\ weather_data = start_rows
                /\ log[k].duplicate_count = prev.log[k].record_count

\* C1, amended: after two completed runs in a row, for every file whose keys
\* the store did not hold before the first run, the rows after the second run
\* are the rows after the first, the second run ingests nothing from the file,
\* and its duplicate count for the file is the number of rows of the file: the
\* first run's ingested count plus the first run's duplicate count.
C1_Idempotent ==
    TwoRunsCompleted =>
        \A k \in 1..Len(log) :
            FreshBefore(k) =>
                /\ weather_data = start_rows
                /\ log[k].file = prev.log[k].file
                /\ log[k].record_count = 0
                /\ log[k].duplicate_count = prev.log[k].record_count + prev.log[k].duplicate_count
                /\ log[k].duplicate_count = Len(wx_data[log[k].file].rows)

\* a file that repeats a date was ingested twice: the first run took one row
\* and refused one, the second refused both
C1_Witness ==
    /\ TwoRunsCompleted
    /\ \E k \in 1..Len(log) :
         /\ FreshBefore(k)
         /\ prev.log[k].record_count = 1
         /\ prev.log[k].duplicate_count = 1
         /\ log[k].duplicate_count = 2

\* C2: the observation store never holds two rows with the same
\* (station_id, date).
C2_Unique ==
    \A r1, r2 \in weather_data :
        (r1.station_id = r2.station_id /\ r1.date = r2.date) => r1 = r2

\* two files of one station are in the directory, and the row just offered
\* has a stored key with other readings: it was refused
C2_Witness ==
    /\ Len(files) = 2
    /\ fidx = 2
    /\ pc = "row"
    /\ i > 1
    /\ duplicate_count > 0
    /\ data[i - 1] \notin weather_data
    /\ Key(data[i - 1]) \in Keys(weather_data)

\* the next pass of the inner loop offers a record whose key is stored
ConflictAhead ==
    /\ pc = "row"
    /\ i <= Len(data)
    /\ data[i].date # NaT
    /\ Key(data[i]) \in Keys(weather_data)

\* C3: when the insert of a record conflicts on (station_id, date) (the store
\* answers, and holds the key), the store is left as it was, so every row
\* committed earlier stays; the record is counted as duplicate and not as
\* ingested; nothing is raised; and the loop moves to the next record.  A
\* file is finished only when every record of it has been attempted.
C3_DuplicateHandling ==
    [][ /\ (ConflictAhead /\ error' # "OperationalError") =>
             /\ weather_data' = weather_data
             /\ duplicate_count' = duplicate_count + 1
             /\ record_count' = record_count
             /\ status' = "running"
             /\ pc' = "row"
             /\ i' = i + 1
        /\ (pc = "row" /\ pc' = "file") => i = Len(data) + 1
      ]_vars

\* a two-line file is through: its first record was refused (the key was
\* stored with other readings), its second was inserted after that
C3_Witness ==
    /\ pc = "row"
    /\ Len(data) = 2
    /\ i = 3
    /\ duplicate_count = 1
    /\ record_count = 1
    /\ data[1] \notin weather_data
    /\ data[2] \in weather_data

PersistenceErrors == {"OperationalError", "DataError"}

\* C4: a row whose date is no date is dropped and counted as a parse
\* failure: it does not end the run, and when its file is finished the
\* ingested and duplicate counts cover the rows with a date, and only them.
C4_ParseFailureIsolation ==
    /\ ~(status = "raised" /\ error = "DataError")
    /\ \A k \in 1..Len(log) :
         log[k].record_count + log[k].duplicate_count =
             Cardinality({j \in 1..Len(Parsed(log[k].file)) : Parsed(log[k].file)[j].date # NaT})

\* C5: when ingest_data ends on a failure that is no persistence failure,
\* every file glob found has been attempted.
C5_FileIsolation ==
    (status = "raised" /\ error \notin PersistenceErrors) => fidx >= Len(files)

\* C6: a record the store refuses for another reason than a key conflict (a
\* date that is no date) ends ingest_data with the error; however an insert
\* ends ingest_data, the failed record is counted neither as duplicate nor as
\* ingested, the committed rows stay, and the loops stop where they are; no
\* step ever removes a committed row.
C6_FatalPersistenceFailure ==
    [][ /\ (pc = "row" /\ i <= Len(data) /\ data[i].date = NaT) =>
             (status' = "raised" /\ error' \in PersistenceErrors)
        /\ (pc = "row" /\ status' = "raised") =>
             /\ error' \in PersistenceErrors
             /\ pc' = "idle"
             /\ weather_data' = weather_data
             /\ duplicate_count' = duplicate_count
             /\ record_count' = record_count
             /\ <<i, fidx, log>>' = <<i, fidx, log>>
        /\ weather_data \subseteq weather_data'
      ]_vars

\* the connection was lost after a row of this run was committed and before
\* the last file was reached
C6_Witness ==
    /\ status = "raised"
    /\ error = "OperationalError"
    /\ pc = "idle"
    /\ weather_data # start_rows
    /\ fidx < Len(files)

\* --------------------------------------------------------------- statistics
\* the statistic rows the last calculate_statistics call committed
Written == weather_statistics (-) stat_before.weather_statistics

\* the observations of station s in year y
Partition(s, y) == {r \in weather_data : r.station_id = s /\ r.date[1] = y}

\* the rows of P with a reading in `field`
WithValue(P, field) == {r \in P : r[field] # <<>>}

\* a stored reading in tenths of the unit
Tenths(v) == (v[1] * 10) \div v[2]

\* the readings of `field` over the rows P, added up in tenths
RECURSIVE TenthsTotal(_, _)
TenthsTotal(P, field) ==
    IF P = {} THEN 0
    ELSE LET r == CHOOSE x \in P : TRUE
         IN  Tenths(r[field]) + TenthsTotal(P \ {r}, field)

\* v is the sum of the readings of `field` in P, null when there is none
IsTotal(v, P, field) ==
    IF WithValue(P, field) = {} THEN v = <<>>
    ELSE /\ Len(v) = 2
         /\ v[2] > 0
         /\ v[1] * 10 = v[2] * TenthsTotal(WithValue(P, field), field)

\* v is the mean of the readings of `field` in P, null when there is none
IsMean(v, P, field) ==
    IF WithValue(P, field) = {} THEN v = <<>>
    ELSE /\ Len(v) = 2
         /\ v[2] > 0
         /\ v[1] * 10 * Cardinality(WithValue(P, field)) = v[2] * TenthsTotal(WithValue(P, field), field)

StatDone == stat_pc = "idle" /\ stat_status = "completed"

\* C8: a calculate_statistics call that succeeds commits exactly one row for
\* each (station_id, year) that has an observation and no other row; the
\* row's avg_max_temp and avg_min_temp are the means and its
\* total_precipitation the sum of the partition's non-null readings, each
\* null when the partition has no non-null reading of the field.
C8_Aggregates ==
    StatDone =>
        /\ \A row \in BagToSet(Written) :
             /\ CopiesIn(row, Written) = 1
             /\ Partition(row.station_id, row.year) # {}
             /\ IsMean(row.avg_max_temp, Partition(row.station_id, row.year), "max_temp")
             /\ IsMean(row.avg_min_temp, Partition(row.station_id, row.year), "min_temp")
             /\ IsTotal(row.total_precipitation, Partition(row.station_id, row.year), "precipitation")
        /\ \A r \in weather_data :
             Cardinality({row \in BagToSet(Written) :
                             row.station_id = r.station_id /\ row.year = r.date[1]}) = 1

\* station S1 has 21.1, null and -2.2 as max_temp on three days of 2003, and
\* station S2 one day without min_temp and precipitation: 9.45, -1.1 and 21.1
\* for the one, 21.1, null and null for the other
C8_Witness ==
    /\ StatDone
    /\ Cardinality(Partition("S1", 2003)) = 3
    /\ [year |-> 2003, station_id |-> "S1", avg_max_temp |-> <<189, 20>>,
         avg_min_temp |-> <<-11, 10>>, total_precipitation |-> <<211, 10>>] \in BagToSet(Written)
    /\ [year |-> 2003, station_id |-> "S2", avg_max_temp |-> <<211, 10>>,
         avg_min_temp |-> <<>>, total_precipitation |-> <<>>] \in BagToSet(Written)

StatFailures == {"query failed", "loop failed", "commit failed"}

\* C9: while calculate_statistics has not committed, and after it failed in
\* the query, in the loop or in the commit, the committed statistic rows and
\* the committed observation rows are those of before the call.
C9_Atomic ==
    (stat_status = "running" \/ stat_status \in StatFailures) =>
        /\ weather_statistics = stat_before.weather_statistics
        /\ weather_data = stat_before.weather_data

\* the second call failed in its commit, after its rows were inserted; the
\* rows of the first call are all there is
C9_Witness ==
    /\ stat_status = "commit failed"
    /\ stat_runs = 2
    /\ weather_statistics # EmptyBag
    /\ weather_statistics = stat_before.weather_statistics

\* C10: the statistics store holds at most one row per (station_id, year).
C10_OneRowPerStationYear ==
    \A r1, r2 \in BagToSet(weather_statistics) :
        /\ CopiesIn(r1, weather_statistics) = 1
        /\ (r1.station_id = r2.station_id /\ r1.year = r2.year) => r1 = r2

\* ------------------------------------------------------------------ pipeline
\* C11: no step changes or removes a committed observation row; the insert
\* of a record whose key is stored, with the stored readings or with others,
\* leaves the observation store as it was; every step of
\* calculate_statistics leaves the observation store as it was, and every
\* step of ingest_data leaves the statistics store as it was.
C11_ObservationsImmutable ==
    [][ /\ \A r \in weather_data : r \in weather_data'
        /\ (pc = "row" /\ i <= Len(data) /\ Key(data[i]) \in Keys(weather_data)
                /\ <<pc, i, status>>' # <<pc, i, status>>) =>
             weather_data' = weather_data
        /\ (stat_vars' # stat_vars) => weather_data' = weather_data
        /\ (ingest_vars' # ingest_vars) => weather_statistics' = weather_statistics
      ]_vars

\* statistics were committed, and after that a record whose key is stored
\* with other readings was offered and refused
C11_Witness ==
    /\ stat_status = "completed"
    /\ weather_statistics # EmptyBag
    /\ weather_data = stat_before.weather_data
    /\ pc = "row"
    /\ i > 1
    /\ duplicate_count > 0
    /\ Key(data[i - 1]) \in Keys(weather_data)
    /\ data[i - 1] \notin weather_data

\* ------------------------------------------------- concurrent ingestion
\* the keys worker w has a count for: its insert of the key was answered,
\* by a commit (ingested) or by a refusal (duplicate)
Offered(w) == workers[w].ingested \cup workers[w].duplicates

RECURSIVE LogSum(_, _)
LogSum(entries, field) ==
    IF entries = <<>> THEN 0 ELSE Head(entries)[field] + LogSum(Tail(entries), field)

\* C13: when a run of ingest_data has completed, it has logged every file of
\* the listing; for every file the ingested count plus the duplicate count
\* is the number of rows the parser emitted for it; the run totals are the
\* sums of the per-file counts; and the number of rows the run added to
\* weather_data is its total ingested count.
C13_CounterConservation ==
    (pc = "idle" /\ status = "completed") =>
        /\ Len(log) = Len(files)
        /\ \A k \in 1..Len(log) :
             /\ log[k].file = files[k]
             /\ log[k].rows = Len(Parsed(log[k].file))
             /\ log[k].record_count + log[k].duplicate_count = log[k].rows
        /\ total_record_count = LogSum(log, "record_count")
        /\ total_duplicate_count = LogSum(log, "duplicate_count")
        /\ start_rows \subseteq weather_data
        /\ Cardinality(weather_data \ start_rows) = total_record_count

\* a completed run over two files that ingested rows of both and counted a
\* duplicate
C13_Witness ==
    /\ pc = "idle"
    /\ status = "completed"
    /\ Len(log) = 2
    /\ log[1].record_count > 0
    /\ log[2].record_count > 0
    /\ total_duplicate_count > 0

====
